---- MODULE Spec2Model ----
(***************************************************************************)
(* Model of the search-provider adapters of OpenDeepSearch:                *)
(*   serp_search/serp_search.py        SearchResult, BaseSearchAPI,        *)
(*                                     SerperAPI, DuckDuckGoAPI            *)
(*   community/search/serpapi_search.py  SerpAPI                            *)
(*                                                                         *)
(* Spec     : one get_sources invocation at a time, stepped through its    *)
(*            validating / calling / parsing positions.                    *)
(* FairSpec : the same invocation over the payloads that reach every       *)
(*            branch of the parsing step, with the fairness the blocking   *)
(*            call and its timeout give.                                   *)
(* ProjSpec : the two extract_fields projectors applied to bounded lists.  *)
(***************************************************************************)
EXTENDS Integers, Sequences, FiniteSets, TLC

(***************************************************************************)
(* Bounds                                                                  *)
(***************************************************************************)
MaxQueryLen == 2      \* longest query string
MaxImages == 7        \* longest raw image section
MaxItems == 2         \* longest list handed to a projector in ProjSpec
MaxNum == 12          \* largest |num_results| passed to get_sources in NumSpec

(***************************************************************************)
(* Python / JSON values.  Every value is a tagged record so that values    *)
(* of different Python types can be compared.                              *)
(***************************************************************************)
None == [t |-> "none"]
Str(s) == [t |-> "str", s |-> s]
Num(n) == [t |-> "int", n |-> n]
List(q) == [t |-> "list", l |-> q]
Dict(f) == [t |-> "dict", d |-> f]

IsDict(v) == v.t = "dict"
IsList(v) == v.t = "list"

\* marker used only while enumerating dictionaries: the key is not there
Absent == [t |-> "absent"]
Opt(S) == S \cup {Absent}
\* the dictionary holding exactly the keys of r that are there
MkDict(r) == Dict([k \in {x \in DOMAIN r : r[x] # Absent} |-> r[k]])

\* key in d
HasKey(d, k) == k \in DOMAIN d.d
\* d.get(k, default)
Get(d, k, default) == IF HasKey(d, k) THEN d.d[k] ELSE default

\* the result of evaluating a Python expression: a value or a raised exception
Ret(v) == [raised |-> FALSE, val |-> v]
Raise(cls, msg) == [raised |-> TRUE, cls |-> cls, msg |-> msg]

\* bool(v) for the values of the model
Truthy(v) ==
  CASE v.t = "none" -> FALSE
    [] v.t = "str" -> v.s # ""
    [] v.t = "int" -> v.n # 0
    [] v.t = "list" -> v.l # <<>>
    [] v.t = "dict" -> DOMAIN v.d # {}
    [] OTHER -> TRUE

Min(a, b) == IF a < b THEN a ELSE b

\* k is a substring of s (Python: k in s, for strings)
Contains(s, k) ==
  \E i \in 1..(Len(s) - Len(k) + 1) : SubSeq(s, i, i + Len(k) - 1) = k

SeqToSet(q) == {q[i] : i \in 1..Len(q)}

(***************************************************************************)
(* str.strip(): whitespace removed from both ends                          *)
(***************************************************************************)
Whitespace == {" ", "\t"}

RECURSIVE LStrip(_)
LStrip(s) ==
  IF s # <<>> /\ Head(s) \in Whitespace THEN LStrip(Tail(s)) ELSE s

RECURSIVE RStrip(_)
RStrip(s) ==
  IF s # <<>> /\ s[Len(s)] \in Whitespace
    THEN RStrip(SubSeq(s, 1, Len(s) - 1))
    ELSE s

\* a test for the empty string that forgets to strip
StripNothing(s) == s

Strip(s) == RStrip(LStrip(s))

(***************************************************************************)
(* SearchResult                                                            *)
(***************************************************************************)
\* the success test inverted
SearchResultInverted(data, error) ==
  [data |-> data, error |-> error, success |-> (error # None)]

SearchResult(data, error) ==
  [data |-> data, error |-> error, success |-> (error = None)]

failed(r) == ~r.success

(***************************************************************************)
(* SerpAPI.extract_fields                                                  *)
(***************************************************************************)
\* field_mapping.get(target_field, target_field)
SourceField(mapping, target_field) ==
  IF target_field \in DOMAIN mapping THEN mapping[target_field]
  ELSE target_field

\* the value stored under target_field for one item: a set holding it, or
\* the empty set when no branch assigns extracted_item[target_field]
FieldValue(item, target_field, mapping) ==
  LET source_field == SourceField(mapping, target_field) IN
  IF HasKey(item, source_field) THEN {item.d[source_field]}
  ELSE IF source_field = "link" /\ ~HasKey(item, "link") THEN
    IF HasKey(item, "url") THEN {item.d["url"]}
    ELSE IF HasKey(item, "href") THEN {item.d["href"]}
    ELSE {}
  ELSE IF source_field = "snippet" /\ ~HasKey(item, "snippet") THEN
    IF HasKey(item, "description") THEN {item.d["description"]}
    ELSE IF HasKey(item, "content") THEN {item.d["content"]}
    ELSE {}
  ELSE {None}

ExtractItem(item, fields, mapping) ==
  Dict([f \in {g \in SeqToSet(fields) : FieldValue(item, g, mapping) # {}}
          |-> CHOOSE v \in FieldValue(item, f, mapping) : TRUE])

RECURSIVE ExtractLoop(_, _, _)
ExtractLoop(items, fields, mapping) ==
  IF items = <<>> THEN <<>>
  ELSE IF ~IsDict(Head(items))
    THEN ExtractLoop(Tail(items), fields, mapping)
    ELSE <<ExtractItem(Head(items), fields, mapping)>>
           \o ExtractLoop(Tail(items), fields, mapping)

SerpAPI_extract_fields(items_list, fields_to_extract, field_mapping) ==
  IF ~Truthy(items_list) THEN Ret(List(<<>>))
  ELSE IF IsList(items_list)
    THEN Ret(List(ExtractLoop(items_list.l, fields_to_extract, field_mapping)))
  ELSE Raise("TypeError", "object is not iterable")

(***************************************************************************)
(* BaseSearchAPI.extract_fields                                            *)
(***************************************************************************)
\* {key: item.get(key, "") for key in fields if key in item} for one item
BaseItem(item, fields) ==
  CASE item.t = "dict" ->
         Ret(Dict([f \in {g \in SeqToSet(fields) : HasKey(item, g)} |-> item.d[f]]))
    [] item.t = "str" ->
         IF \E g \in SeqToSet(fields) : Contains(item.s, g)
           THEN Raise("AttributeError", "'str' object has no attribute 'get'")
           ELSE Ret(Dict(<<>>))
    [] item.t = "list" ->
         IF \E g \in SeqToSet(fields) : Str(g) \in SeqToSet(item.l)
           THEN Raise("AttributeError", "'list' object has no attribute 'get'")
           ELSE Ret(Dict(<<>>))
    [] OTHER -> Raise("TypeError", "argument is not iterable")

RECURSIVE BaseLoop(_, _)
BaseLoop(items, fields) ==
  IF items = <<>> THEN Ret(List(<<>>))
  ELSE LET h == BaseItem(Head(items), fields) IN
       IF h.raised THEN h
       ELSE LET r == BaseLoop(Tail(items), fields) IN
            IF r.raised THEN r ELSE Ret(List(<<h.val>> \o r.val.l))

\* the sections of the model are lists or None; iterating None raises
Base_extract_fields(items, fields) ==
  IF IsList(items) THEN BaseLoop(items.l, fields)
  ELSE Raise("TypeError", "object is not iterable")

(***************************************************************************)
(* Slicing and the canonical structure                                     *)
(***************************************************************************)
ImageLimit == 6

\* an off-by-one slice, v[:n+1]
SliceOneMore(v, n) ==
  IF IsList(v) THEN Ret(List(SubSeq(v.l, 1, Min(n + 1, Len(v.l)))))
  ELSE Raise("TypeError", "object is not subscriptable")

\* v[:n]
Slice(v, n) ==
  IF IsList(v) THEN Ret(List(SubSeq(v.l, 1, Min(n, Len(v.l)))))
  ELSE Raise("TypeError", "object is not subscriptable")

OrganicFields == <<"title", "link", "snippet", "date">>
ImageFields == <<"title", "imageUrl">>
DDGFields == <<"Text", "FirstURL", "Icon">>

organic_mapping ==
  [title |-> "title", link |-> "link", snippet |-> "snippet", date |-> "date"]
image_mapping == [title |-> "title", imageUrl |-> "thumbnail"]
news_mapping == [title |-> "title", imageUrl |-> "thumbnail"]

EmptyStructure ==
  Dict([organic |-> List(<<>>), topStories |-> List(<<>>), images |-> List(<<>>),
        graph |-> None, answerBox |-> None,
        peopleAlsoAsk |-> List(<<>>), relatedSearches |-> List(<<>>)])

(***************************************************************************)
(* SerpAPI.standardize_response.  The result carries the number of         *)
(* extract_fields calls that were started.                                 *)
(***************************************************************************)
Counted(r, n) == [r |-> r, calls |-> n]

SerpAPI_images_source(serp_api_data) ==
  Get(serp_api_data, "images_results",
      Get(serp_api_data, "inline_images", List(<<>>)))

SerpAPI_stories_source(serp_api_data) ==
  Get(serp_api_data, "top_stories",
      Get(serp_api_data, "news_results", List(<<>>)))

standardize_response(serp_api_data) ==
  IF ~IsDict(serp_api_data) THEN Counted(Ret(EmptyStructure), 0)
  ELSE IF HasKey(serp_api_data, "error") THEN Counted(Ret(EmptyStructure), 0)
  ELSE
    LET organic == SerpAPI_extract_fields(
                     Get(serp_api_data, "organic_results", List(<<>>)),
                     OrganicFields, organic_mapping)
        topStories == SerpAPI_extract_fields(
                     SerpAPI_stories_source(serp_api_data),
                     ImageFields, news_mapping)
        sliced == Slice(SerpAPI_images_source(serp_api_data), ImageLimit)
        images == SerpAPI_extract_fields(sliced.val, ImageFields, image_mapping)
    IN IF organic.raised THEN Counted(organic, 1)
       ELSE IF topStories.raised THEN Counted(topStories, 2)
       ELSE IF sliced.raised THEN Counted(sliced, 2)
       ELSE IF images.raised THEN Counted(images, 3)
       ELSE Counted(Ret(Dict(
              [organic |-> organic.val,
               topStories |-> topStories.val,
               images |-> images.val,
               graph |-> Get(serp_api_data, "knowledge_graph", None),
               answerBox |-> Get(serp_api_data, "answer_box", None),
               peopleAlsoAsk |-> Get(serp_api_data, "people_also_ask", List(<<>>)),
               relatedSearches |-> Get(serp_api_data, "related_searches", List(<<>>))])),
            3)

(***************************************************************************)
(* The except clauses shared by the three get_sources                      *)
(***************************************************************************)
\* the subclasses of requests.RequestException the model raises
RequestExceptionClasses ==
  {"ConnectionError", "Timeout", "HTTPError", "JSONDecodeError"}

Except(exc) ==
  IF exc.cls \in RequestExceptionClasses
    THEN SearchResult(None, Str("API request failed: " \o exc.msg))
    ELSE SearchResult(None, Str("Unexpected error: " \o exc.msg))

(***************************************************************************)
(* The part of each get_sources that follows the decoded payload           *)
(***************************************************************************)
\* SerperAPI.get_sources, from `results = {` to `return`
Serper_project(data) ==
  IF ~IsDict(data)
    THEN Counted(Raise("AttributeError", "object has no attribute 'get'"), 0)
  ELSE
    LET organic == Base_extract_fields(Get(data, "organic", List(<<>>)), OrganicFields)
        topStories == Base_extract_fields(Get(data, "topStories", List(<<>>)), ImageFields)
        sliced == Slice(Get(data, "images", List(<<>>)), ImageLimit)
        images == Base_extract_fields(sliced.val, ImageFields)
    IN IF organic.raised THEN Counted(organic, 1)
       ELSE IF topStories.raised THEN Counted(topStories, 2)
       ELSE IF sliced.raised THEN Counted(sliced, 2)
       ELSE IF images.raised THEN Counted(images, 3)
       ELSE Counted(Ret(Dict(
              [organic |-> organic.val,
               topStories |-> topStories.val,
               images |-> images.val,
               graph |-> Get(data, "knowledgeGraph", None),
               answerBox |-> Get(data, "answerBox", None),
               peopleAlsoAsk |-> Get(data, "peopleAlsoAsk", None),
               relatedSearches |-> Get(data, "relatedSearches", None)])),
            3)

\* DuckDuckGoAPI.get_sources, from `results = {` to `return`
DDG_project(data) ==
  IF ~IsDict(data)
    THEN Counted(Raise("AttributeError", "object has no attribute 'get'"), 0)
  ELSE
    LET organic == Base_extract_fields(Get(data, "RelatedTopics", List(<<>>)), DDGFields)
    IN IF organic.raised THEN Counted(organic, 1)
       ELSE Counted(Ret(Dict(
              [organic |-> organic.val,
               answerBox |-> Get(data, "AbstractText", None),
               relatedSearches |-> Get(data, "RelatedTopics", None)])),
            1)

\* SerpAPI.get_sources without its test for a provider-reported error
SerpAPI_finishNoErrorTest(result) ==
  IF ~(IsDict(result) \/ IsList(result))
    THEN Counted(Ret(Except(Raise("TypeError", "argument is not iterable"))), 0)
  ELSE LET std == standardize_response(result) IN
       IF std.r.raised THEN Counted(Ret(Except(std.r)), std.calls + 1)
       ELSE Counted(Ret(SearchResult(std.r.val, None)), std.calls + 1)

\* SerpAPI.get_sources, from the `'error' in result` test to `return`;
\* the envelope is built here because the error return is not an exception
SerpAPI_finish(result) ==
  IF ~(IsDict(result) \/ IsList(result))
    THEN Counted(Ret(Except(Raise("TypeError", "argument is not iterable"))), 0)
  ELSE IF IsDict(result) /\ HasKey(result, "error")
    THEN Counted(Ret(SearchResult(None,
                       Str("SerpAPI error: " \o result.d["error"].s))), 0)
  ELSE LET std == standardize_response(result) IN
       IF std.r.raised THEN Counted(Ret(Except(std.r)), std.calls + 1)
       ELSE Counted(Ret(SearchResult(std.r.val, None)), std.calls + 1)

\* the other two adapters: the projection wrapped into the envelope
Finish(projected) ==
  IF projected.r.raised THEN Counted(Ret(Except(projected.r)), projected.calls)
  ELSE Counted(Ret(SearchResult(projected.r.val, None)), projected.calls)

(***************************************************************************)
(* Inputs: queries, provider payloads, transport faults                    *)
(***************************************************************************)
Adapters == {"SerperAPI", "DuckDuckGoAPI", "SerpAPI"}

QueryChars == {" ", "\t", "a"}
Queries == UNION {[1..n -> QueryChars] : n \in 0..MaxQueryLen}

RecFull ==
  Dict([title |-> Str("A"), link |-> Str("http://x"), snippet |-> Str("s"),
        date |-> Str("2024-01-01")])
RecAlias ==
  Dict([title |-> Str("A"), url |-> Str("http://y"), description |-> Str("d")])
RecBare == Dict([title |-> Str("B")])

OrganicSections ==
  {List(<<>>), List(<<RecFull>>), List(<<RecAlias, Num(42), RecBare>>)}

Story(n) ==
  Dict([title |-> Str(n), thumbnail |-> Str("t"), imageUrl |-> Str("u")])
StorySections == {List(<<Story("N")>>)}
NewsSections == {List(<<Story("M")>>)}

\* the i-th raw image record; every second one has no image URL
ImageRecord(i) ==
  IF i % 2 = 1
    THEN Dict([title |-> Num(i), thumbnail |-> Str("t"), imageUrl |-> Str("u")])
    ELSE Dict([title |-> Num(i)])
ImageList(n, base) == List([i \in 1..n |-> ImageRecord(base + i)])
\* the same list with a string in place of its second record
ImageListBad(n) ==
  List([i \in 1..n |-> IF i = 2 THEN Str("x") ELSE ImageRecord(i)])
ImageSections ==
  {ImageList(n, 0) : n \in 0..MaxImages}
    \cup {ImageListBad(n) : n \in {2, MaxImages}} \cup {None}
InlineSections == {ImageList(MaxImages, 100)}

Objects(k) == {Dict([name |-> Str(k)])}
ObjectLists(k) == {List(<<Dict([name |-> Str(k)])>>)}
ProviderErrors == {Str("Invalid API key.")}

\* a decoded body that is not a JSON object
NonObjectPayload == List(<<>>)

SerpAPIPayloads ==
  {MkDict(r) : r \in
     [error : Opt(ProviderErrors),
      organic_results : Opt(OrganicSections),
      top_stories : Opt(StorySections),
      news_results : Opt(NewsSections),
      images_results : Opt(ImageSections),
      inline_images : Opt(InlineSections),
      knowledge_graph : Opt(Objects("G")),
      answer_box : Opt(Objects("B")),
      people_also_ask : Opt(ObjectLists("Q")),
      related_searches : Opt(ObjectLists("R"))]}

SerperPayloads ==
  {MkDict(r) : r \in
     [organic : Opt(OrganicSections),
      topStories : Opt(StorySections),
      images : Opt(ImageSections),
      knowledgeGraph : Opt(Objects("G")),
      answerBox : Opt(Objects("B")),
      peopleAlsoAsk : Opt(ObjectLists("Q")),
      relatedSearches : Opt(ObjectLists("R"))]}

Topic == Dict([Text |-> Str("T"), FirstURL |-> Str("http://t")])
DDGPayloads ==
  {MkDict(r) : r \in
     [RelatedTopics : Opt({List(<<>>), List(<<Topic>>), List(<<Topic, Num(42)>>), None}),
      AbstractText : Opt({Str("abstract")})]}

Payloads(a) ==
  {NonObjectPayload} \cup
  (CASE a = "SerpAPI" -> SerpAPIPayloads
     [] a = "SerperAPI" -> SerperPayloads
     [] OTHER -> DDGPayloads)

\* what the transport can raise, with str(e)
TransportFaults ==
  {Raise("ConnectionError", "connection refused"),
   Raise("Timeout", "read timed out"),
   Raise("HTTPError", "500 Server Error")}

\* the class of the exception an undecodable body raises.  SerperAPI and
\* DuckDuckGoAPI decode with response.json(): requests.JSONDecodeError (a
\* RequestException) from requests 2.27 on, ValueError before.  SerpAPI
\* decodes inside get_dict() with json.loads: ValueError.
DecodeErrorClasses(a) ==
  IF a = "SerpAPI" THEN {"ValueError"} ELSE {"JSONDecodeError", "ValueError"}

(***************************************************************************)
(* State                                                                   *)
(***************************************************************************)
VARIABLES
  pc,         \* position of the get_sources invocation
  adapter,    \* the adapter serving it
  query,      \* its query argument
  response,   \* what the transport handed back
  ret,        \* what get_sources returned (or raised) to its caller
  netCalls,   \* network calls issued during the invocation
  projCalls,  \* standardize_response / extract_fields calls started
  proj,       \* ProjSpec: the last extract_fields call and its result
  inst,       \* CtorSpec: the arguments of a constructor call and its result
  sent        \* NumSpec: a num_results argument and the count that is sent

vars == <<pc, adapter, query, response, ret, netCalls, projCalls, proj, inst, sent>>

Pending == [t |-> "pending"]
NoResponse == [kind |-> "none"]
Undecodable == [kind |-> "undecodable"]
Decoded(p) == [kind |-> "json", payload |-> p]
NoProj == [fn |-> "none"]
NoCall == [fn |-> "none"]

Init ==
  /\ pc = "idle"
  /\ adapter = "none"
  /\ query = <<>>
  /\ response = NoResponse
  /\ ret = Pending
  /\ netCalls = 0
  /\ projCalls = 0
  /\ proj = NoProj
  /\ inst = NoCall
  /\ sent = NoCall

(***************************************************************************)
(* get_sources, step by step                                               *)
(***************************************************************************)
\* the caller invokes adapter a with query q
Invoke(a, q) ==
  /\ pc = "idle"
  /\ pc' = "validating"
  /\ adapter' = a
  /\ query' = q
  /\ UNCHANGED <<response, ret, netCalls, projCalls, proj, inst, sent>>

\* if not query.strip(): return SearchResult(error="Query cannot be empty")
Validate ==
  /\ pc = "validating"
  /\ IF Strip(query) = <<>>
       THEN /\ ret' = Ret(SearchResult(None, Str("Query cannot be empty")))
            /\ pc' = "error"
       ELSE /\ ret' = ret
            /\ pc' = "calling"
  /\ UNCHANGED <<adapter, query, response, netCalls, projCalls, proj, inst, sent>>

\* a transport failure that is retried instead of returned
CallFailsRetry ==
  /\ pc = "calling"
  /\ netCalls < 3
  /\ netCalls' = netCalls + 1
  /\ UNCHANGED <<pc, adapter, query, response, ret, projCalls, proj, inst, sent>>

\* requests.post / requests.get / GoogleSearch.get_dict: the one round trip
\* ends in an exception of the transport ...
CallFails ==
  /\ pc = "calling"
  /\ \E exc \in TransportFaults :
       /\ netCalls' = netCalls + 1
       /\ ret' = Ret(Except(exc))
       /\ pc' = "error"
  /\ UNCHANGED <<adapter, query, response, projCalls, proj, inst, sent>>

\* ... or in a body, which is JSON (one of the payloads P) or is not
CallReturnsOf(P) ==
  /\ pc = "calling"
  /\ \E body \in {Undecodable} \cup {Decoded(p) : p \in P} :
       /\ netCalls' = netCalls + 1
       /\ response' = body
       /\ pc' = "parsing"
  /\ UNCHANGED <<adapter, query, ret, projCalls, proj, inst, sent>>

CallReturns == CallReturnsOf(Payloads(adapter))

\* response.json() / json.loads on a body that is not JSON
DecodeFails ==
  /\ pc = "parsing"
  /\ response = Undecodable
  /\ \E cls \in DecodeErrorClasses(adapter) :
       ret' = Ret(Except(Raise(cls, "Expecting value")))
  /\ pc' = "error"
  /\ UNCHANGED <<adapter, query, response, netCalls, projCalls, proj, inst, sent>>

\* the decoded payload is checked, projected and wrapped
Parse ==
  /\ pc = "parsing"
  /\ response.kind = "json"
  /\ LET fin == CASE adapter = "SerpAPI" -> SerpAPI_finish(response.payload)
                  [] adapter = "SerperAPI" -> Finish(Serper_project(response.payload))
                  [] OTHER -> Finish(DDG_project(response.payload))
     IN /\ ret' = fin.r
        /\ projCalls' = fin.calls
        /\ pc' = IF fin.r.val.success THEN "done" ELSE "error"
  /\ UNCHANGED <<adapter, query, response, netCalls, proj, inst, sent>>

\* the envelope is handed to the caller; nothing of the invocation is kept
Return ==
  /\ pc \in {"done", "error"}
  /\ pc' = "idle"
  /\ adapter' = "none"
  /\ query' = <<>>
  /\ response' = NoResponse
  /\ ret' = Pending
  /\ netCalls' = 0
  /\ projCalls' = 0
  /\ UNCHANGED <<proj, inst, sent>>

Next ==
  \/ \E a \in Adapters, q \in Queries : Invoke(a, q)
  \/ Validate
  \/ CallFails
  \/ CallReturns
  \/ DecodeFails
  \/ Parse
  \/ Return

Spec == Init /\ [][Next]_vars

(***************************************************************************)
(* FairSpec: the same invocation over the payloads that hold at most the   *)
(* error, organic and image sections, which reach every branch of the      *)
(* parsing step.  The call blocks for one round trip bounded by the        *)
(* timeout and the code after it is straight-line, so every step that is   *)
(* enabled is taken.                                                       *)
(***************************************************************************)
LivePayloads(a) ==
  {NonObjectPayload} \cup
  (CASE a = "SerpAPI" ->
          {MkDict(r) : r \in [error : Opt(ProviderErrors),
                              organic_results : Opt(OrganicSections),
                              images_results : Opt(ImageSections)]}
     [] a = "SerperAPI" ->
          {MkDict(r) : r \in [organic : Opt(OrganicSections),
                              images : Opt(ImageSections)]}
     [] OTHER -> DDGPayloads)

LiveCallReturns == CallReturnsOf(LivePayloads(adapter))

LiveNext ==
  \/ \E a \in Adapters, q \in Queries : Invoke(a, q)
  \/ Validate
  \/ CallFails
  \/ LiveCallReturns
  \/ DecodeFails
  \/ Parse
  \/ Return

FairSpec ==
  /\ Init
  /\ [][LiveNext]_vars
  /\ WF_vars(Validate)
  /\ WF_vars(CallFails \/ LiveCallReturns)
  /\ WF_vars(DecodeFails)
  /\ WF_vars(Parse)

TypeOK ==
  /\ pc \in {"idle", "validating", "calling", "parsing", "done", "error"}
  /\ adapter \in Adapters \cup {"none"}
  /\ netCalls \in Nat
  /\ projCalls \in Nat

(***************************************************************************)
(* ProjSpec: extract_fields as a function of its arguments                 *)
(***************************************************************************)
\* every record over the keys the organic projection reads or falls back to
ProjRecords ==
  {MkDict(r) : r \in
     [title : Opt({Str("A")}),
      link : Opt({Str("L")}), url : Opt({Str("U")}), href : Opt({Str("H")}),
      snippet : Opt({Str("S")}), description : Opt({Str("D")}),
      content : Opt({Str("C")})]}
NonMaps == {Num(42), Str("x")}
ProjItems == ProjRecords \cup NonMaps
ProjInputs ==
  {None} \cup {List(q) : q \in UNION {[1..n -> ProjItems] : n \in 0..MaxItems}}

\* field_mapping=None becomes {}
NoMapping == [f \in {} |-> f]

ProjInit ==
  /\ pc = "idle"
  /\ adapter = "none"
  /\ query = <<>>
  /\ response = NoResponse
  /\ ret = Pending
  /\ netCalls = 0
  /\ projCalls = 0
  /\ \E items \in ProjInputs : proj = [fn |-> "none", items |-> items]
  /\ inst = NoCall
  /\ sent = NoCall

\* SerpAPI.extract_fields(items, ['title','link','snippet','date'], mapping)
ProjectSerpAPI ==
  /\ proj.fn = "none"
  /\ \E mapping \in {organic_mapping, NoMapping} :
       proj' = [fn |-> "SerpAPI", items |-> proj.items,
                out |-> SerpAPI_extract_fields(proj.items, OrganicFields, mapping)]
  /\ UNCHANGED <<pc, adapter, query, response, ret, netCalls, projCalls, inst, sent>>

\* BaseSearchAPI.extract_fields(items, ['title','link','snippet','date'])
ProjectBase ==
  /\ proj.fn = "none"
  /\ proj' = [fn |-> "Base", items |-> proj.items,
              out |-> Base_extract_fields(proj.items, OrganicFields)]
  /\ UNCHANGED <<pc, adapter, query, response, ret, netCalls, projCalls, inst, sent>>

ProjNext == ProjectSerpAPI \/ ProjectBase

ProjSpec == ProjInit /\ [][ProjNext]_vars

(***************************************************************************)
(* Properties                                                              *)
(***************************************************************************)
IsBlank(q) == \A i \in 1..Len(q) : q[i] \in Whitespace
HasPrefix(s, p) == Len(s) >= Len(p) /\ SubSeq(s, 1, Len(p)) = p
Finished == pc \in {"done", "error"}
Payload == response.payload
GotObject == response.kind = "json" /\ IsDict(response.payload)

\* C1: for every adapter, a query that is empty or only whitespace ends in
\* the failed envelope with error "Query cannot be empty" and no data, and no
\* network call was issued during the invocation.
C1_BlankQueryRejected ==
  (pc \notin {"idle", "validating"} /\ IsBlank(query)) =>
     /\ pc = "error"
     /\ ret = Ret([data |-> None, error |-> Str("Query cannot be empty"),
                   success |-> FALSE])
     /\ failed(ret.val)
     /\ netCalls = 0

C1_Witness ==
  /\ pc = "error"
  /\ adapter = "SerpAPI"
  /\ query # <<>>
  /\ IsBlank(query)
  /\ netCalls = 0

\* C2: every envelope get_sources returns, on every path, has exactly one of
\* data and error present, and success is true exactly when error is absent
\* (failed is its negation).
C2_EnvelopeShape ==
  Finished =>
     /\ ~ret.raised
     /\ (ret.val.data = None) # (ret.val.error = None)
     /\ ret.val.success <=> (ret.val.error = None)
     /\ failed(ret.val) <=> (ret.val.error # None)

C2_Witness ==
  /\ pc = "done"
  /\ adapter = "SerperAPI"
  /\ ret.val.success
  /\ ret.val.data # None
  /\ ret.val.error = None

\* C3: for a non-blank query every invocation returns an envelope; a
\* transport failure gives an error starting with "API request failed: ", any
\* other failure while decoding or projecting gives an error starting with
\* "Unexpected error: ", and in both cases data is absent.
ProviderReported == GotObject /\ HasKey(Payload, "error") /\ adapter = "SerpAPI"

C3_FaultsBecomeEnvelopes ==
  (Finished /\ ~IsBlank(query)) =>
     /\ ~ret.raised
     /\ (pc = "error" /\ response = NoResponse) =>
           /\ HasPrefix(ret.val.error.s, "API request failed: ")
           /\ ret.val.data = None
     /\ (pc = "error" /\ response # NoResponse /\ ~ProviderReported) =>
           /\ HasPrefix(ret.val.error.s, "Unexpected error: ")
           /\ ret.val.data = None

\* C4: SerpAPI, decoded payload with the key `error`: the envelope is the
\* failure "SerpAPI error: <message>", whose prefix is not the transport
\* one, data is absent, and neither standardize_response nor extract_fields
\* ran.
C4_ProviderErrorSurfaced ==
  (Finished /\ ProviderReported) =>
     /\ pc = "error"
     /\ ret = Ret([data |-> None,
                   error |-> Str("SerpAPI error: " \o Payload.d["error"].s),
                   success |-> FALSE])
     /\ ~HasPrefix(ret.val.error.s, "API request failed: ")
     /\ projCalls = 0

C4_Witness ==
  /\ pc = "error"
  /\ ProviderReported
  /\ HasKey(Payload, "organic_results")
  /\ Payload.d["error"] = Str("Invalid API key.")
  /\ projCalls = 0

\* C5: an invocation moves only forward through validating, calling,
\* parsing and done, with error reachable from each; it issues exactly one
\* network call when the query is not blank and never a second one; once it
\* is in done or error no network call and no projection follow; and every
\* invocation ends in done or error.
ForwardEdges ==
  {<<"idle", "validating">>,
   <<"validating", "calling">>, <<"validating", "error">>,
   <<"calling", "parsing">>, <<"calling", "error">>,
   <<"parsing", "done">>, <<"parsing", "error">>,
   <<"done", "idle">>, <<"error", "idle">>}

C5_SingleShot ==
  /\ [](/\ netCalls <= 1
        /\ pc \in {"parsing", "done"} => netCalls = 1
        /\ (pc = "error" /\ ~IsBlank(query)) => netCalls = 1)
  /\ [][/\ <<pc, pc'>> \in ForwardEdges
        /\ netCalls' # netCalls => (pc = "calling" \/ Finished)
        /\ Finished => (netCalls' <= netCalls /\ projCalls' <= projCalls)]_vars
  /\ (pc = "validating") ~> Finished

C5_Witness ==
  /\ pc = "done"
  /\ adapter = "DuckDuckGoAPI"
  /\ netCalls = 1
  /\ projCalls = 1

\* C6: in every successful result, a sequence field (organic, topStories,
\* images, peopleAlsoAsk, relatedSearches) whose raw field the payload omits
\* is there and is the empty sequence; graph and answerBox are there and
\* null when their raw field is omitted.
SequenceFields ==
  {"organic", "topStories", "images", "peopleAlsoAsk", "relatedSearches"}
ObjectFields == {"graph", "answerBox"}

\* the raw keys each adapter reads for a canonical field
RawKeys(a, f) ==
  CASE a = "SerpAPI" ->
         (CASE f = "organic" -> {"organic_results"}
            [] f = "topStories" -> {"top_stories", "news_results"}
            [] f = "images" -> {"images_results", "inline_images"}
            [] f = "peopleAlsoAsk" -> {"people_also_ask"}
            [] f = "relatedSearches" -> {"related_searches"}
            [] f = "graph" -> {"knowledge_graph"}
            [] OTHER -> {"answer_box"})
    [] a = "SerperAPI" ->
         (CASE f = "graph" -> {"knowledgeGraph"}
            [] OTHER -> {f})
    [] OTHER ->
         (CASE f \in {"organic", "relatedSearches"} -> {"RelatedTopics"}
            [] f = "answerBox" -> {"AbstractText"}
            [] OTHER -> {})

Omitted(f) == \A k \in RawKeys(adapter, f) : ~HasKey(Payload, k)

C6_MissingSectionsDefault ==
  (pc = "done" /\ GotObject) =>
     /\ \A f \in SequenceFields :
          Omitted(f) => /\ HasKey(ret.val.data, f)
                        /\ ret.val.data.d[f] = List(<<>>)
     /\ \A f \in ObjectFields :
          Omitted(f) => /\ HasKey(ret.val.data, f)
                        /\ ret.val.data.d[f] = None

\* C8: when the selected raw image section holds more than 6 records the
\* images of the result are the projections of the first 6, in order; with
\* 6 or fewer there is one entry per record, in order.
RawImages ==
  IF adapter = "SerpAPI"
    THEN IF HasKey(Payload, "images_results") THEN Payload.d["images_results"]
         ELSE IF HasKey(Payload, "inline_images") THEN Payload.d["inline_images"]
         ELSE List(<<>>)
    ELSE IF HasKey(Payload, "images") THEN Payload.d["images"] ELSE List(<<>>)

AllRecords(v) == IsList(v) /\ \A i \in 1..Len(v.l) : IsDict(v.l[i])

\* the image URL of a raw record under the adapter's vocabulary
RawImageUrlKey == IF adapter = "SerpAPI" THEN "thumbnail" ELSE "imageUrl"

Projected == proj.fn # "none"
OnlyRecords == AllRecords(proj.items)
Aliases(f) ==
  CASE f = "link" -> <<"url", "href">>
    [] f = "snippet" -> <<"description", "content">>
    [] OTHER -> <<>>

\* C7: for every record and every target field whose source field and
\* aliases are all absent from it, the output map of either projector has
\* the target field as a key with value null, and the projection does not
\* raise.
C7_AbsentFieldIsNull ==
  (Projected /\ OnlyRecords) =>
     /\ ~proj.out.raised
     /\ Len(proj.out.val.l) = Len(proj.items.l)
     /\ \A i \in 1..Len(proj.items.l) : \A f \in SeqToSet(OrganicFields) :
          (\A k \in {f} \cup SeqToSet(Aliases(f)) : ~HasKey(proj.items.l[i], k))
             => /\ HasKey(proj.out.val.l[i], f)
                /\ proj.out.val.l[i].d[f] = None

\* the value the fallback rule gives field f of record m: the source key if
\* it is there, else the first alias that is there
RECURSIVE FirstPresent(_, _)
FirstPresent(m, keys) ==
  IF keys = <<>> THEN {}
  ELSE IF HasKey(m, Head(keys)) THEN {m.d[Head(keys)]}
  ELSE FirstPresent(m, Tail(keys))

\* C9: link is taken from `link` if the record has it, else from `url`,
\* else from `href`; snippet from `snippet`, else `description`, else
\* `content`.
C9_AliasFallback ==
  (Projected /\ OnlyRecords) =>
     /\ ~proj.out.raised
     /\ Len(proj.out.val.l) = Len(proj.items.l)
     /\ \A i \in 1..Len(proj.items.l) : \A f \in {"link", "snippet"} :
          \A v \in FirstPresent(proj.items.l[i], <<f>> \o Aliases(f)) :
             /\ HasKey(proj.out.val.l[i], f)
             /\ proj.out.val.l[i].d[f] = v

\* the elements of q that are key-value maps, in order
RECURSIVE MapsOf(_)
MapsOf(q) ==
  IF q = <<>> THEN <<>>
  ELSE IF IsDict(Head(q)) THEN <<Head(q)>> \o MapsOf(Tail(q))
  ELSE MapsOf(Tail(q))

\* C10: for every input (a list with or without non-map elements, an empty
\* list, an absent one) the projector does not fail and returns a list with
\* one map per input element that is a map, in the input's order.
C10_ProjectorTotal ==
  Projected =>
     /\ ~proj.out.raised
     /\ IsList(proj.out.val)
     /\ LET kept == IF IsList(proj.items) THEN MapsOf(proj.items.l) ELSE <<>>
            out == proj.out.val.l
        IN /\ Len(out) = Len(kept)
           /\ \A i \in 1..Len(out) : \A f \in {"title", "link", "snippet"} :
                HasKey(kept[i], f) =>
                   /\ HasKey(out[i], f)
                   /\ out[i].d[f] = kept[i].d[f]

(***************************************************************************)
(* CtorSpec: the constructors as functions of their arguments and of the   *)
(* process environment                                                     *)
(***************************************************************************)
\* credentials a caller can pass; the empty string is one of them
Credentials == {Str(""), Str("k1"), Str("k2")}
EnvValues == {Str(""), Str("e1")}
Environments ==
  {MkDict(r) : r \in [SERPER_API_KEY : Opt(EnvValues),
                      SERPAPI_API_KEY : Opt(EnvValues)]}

\* os.getenv(name)
getenv(env, name) == Get(env, name, None)

SerpAPIDefaultNumResults == 20

\* the dataclasses; an instance of either is truthy whatever its fields
SerperConfig(api_key) ==
  [t |-> "SerperConfig", api_key |-> api_key,
   api_url |-> "https://google.serper.dev/search",
   default_location |-> "us", timeout |-> 10]

SerpAPIConfig(api_key, num_results) ==
  [t |-> "SerpAPIConfig", api_key |-> api_key,
   default_location |-> "United Kingdom", timeout |-> 10,
   num_results |-> num_results]

SerperConfig_from_env(env) ==
  LET api_key == getenv(env, "SERPER_API_KEY") IN
  IF ~Truthy(api_key)
    THEN Raise("SerperAPIException", "SERPER_API_KEY environment variable not set")
    ELSE Ret(SerperConfig(api_key))

SerpAPIConfig_from_env(env) ==
  LET api_key == getenv(env, "SERPAPI_API_KEY") IN
  IF ~Truthy(api_key)
    THEN Raise("SerpAPIException", "SERPAPI_API_KEY environment variables not set")
    ELSE Ret(SerpAPIConfig(api_key, SerpAPIDefaultNumResults))

\* SerperAPI.__init__(config)
SerperAPI_init(config, env) ==
  LET cfg == IF Truthy(config) THEN Ret(config) ELSE SerperConfig_from_env(env) IN
  IF cfg.raised THEN cfg
  ELSE Ret([t |-> "SerperAPI",
            api_key |-> IF Truthy(config) THEN config.api_key ELSE None,
            config |-> cfg.val,
            headers |-> [X_API_KEY |-> cfg.val.api_key,
                         Content_Type |-> "application/json"]])

\* SerpAPI.__init__(api_key, config); installed: `from serpapi import
\* GoogleSearch` succeeds
SerpAPI_init(api_key, config, env, installed) ==
  IF ~Truthy(api_key) /\ ~Truthy(config)
    THEN Raise("SerpAPIException", "Either api_key or config must be provided")
  ELSE IF ~installed
    THEN Raise("SerpAPIException", "serpapi is not installed")
  ELSE IF Truthy(api_key)
    THEN Ret([t |-> "SerpAPI",
              config |-> SerpAPIConfig(api_key, SerpAPIDefaultNumResults)])
  ELSE LET cfg == IF Truthy(config) THEN Ret(config)
                  ELSE SerpAPIConfig_from_env(env) IN
       IF cfg.raised THEN cfg ELSE Ret([t |-> "SerpAPI", config |-> cfg.val])

\* DuckDuckGoAPI.__init__(api_key)
DuckDuckGoAPI_init(api_key) ==
  Ret([t |-> "DuckDuckGoAPI", api_key |-> api_key,
       api_url |-> "https://api.duckduckgo.com/"])

\* the arguments: api_key, the api_key of the config object passed (None:
\* no config object), the environment, whether serpapi can be imported
CtorInit ==
  /\ pc = "idle"
  /\ adapter = "none"
  /\ query = <<>>
  /\ response = NoResponse
  /\ ret = Pending
  /\ netCalls = 0
  /\ projCalls = 0
  /\ proj = NoProj
  /\ sent = NoCall
  /\ \E api_key \in {None} \cup Credentials, config_key \in {None} \cup Credentials,
        env \in Environments, installed \in BOOLEAN :
       inst = [fn |-> "none", api_key |-> api_key, config_key |-> config_key,
               env |-> env, installed |-> installed]

ConstructSerper ==
  /\ inst.fn = "none"
  /\ inst' = [inst EXCEPT !.fn = "SerperAPI"] @@
       [out |-> SerperAPI_init(
                  IF inst.config_key = None THEN None
                  ELSE SerperConfig(inst.config_key), inst.env)]
  /\ UNCHANGED <<pc, adapter, query, response, ret, netCalls, projCalls, proj, sent>>

ConstructSerpAPI ==
  /\ inst.fn = "none"
  /\ inst' = [inst EXCEPT !.fn = "SerpAPI"] @@
       [out |-> SerpAPI_init(
                  inst.api_key,
                  IF inst.config_key = None THEN None
                  ELSE SerpAPIConfig(inst.config_key, SerpAPIDefaultNumResults),
                  inst.env, inst.installed)]
  /\ UNCHANGED <<pc, adapter, query, response, ret, netCalls, projCalls, proj, sent>>

ConstructDuckDuckGo ==
  /\ inst.fn = "none"
  /\ inst' = [inst EXCEPT !.fn = "DuckDuckGoAPI"] @@
       [out |-> DuckDuckGoAPI_init(inst.api_key)]
  /\ UNCHANGED <<pc, adapter, query, response, ret, netCalls, projCalls, proj, sent>>

CtorNext == ConstructSerper \/ ConstructSerpAPI \/ ConstructDuckDuckGo

CtorSpec == CtorInit /\ [][CtorNext]_vars

\* C11: for SerperAPI and SerpAPI, a construction with no explicit
\* credential takes it from SERPER_API_KEY / SERPAPI_API_KEY and succeeds
\* when the variable is set, fails with the provider's exception (and no
\* network call) when it is not, and no instance ever holds no credential.
EnvVar(fn) == IF fn = "SerperAPI" THEN "SERPER_API_KEY" ELSE "SERPAPI_API_KEY"
ProviderException(fn) ==
  IF fn = "SerperAPI" THEN "SerperAPIException" ELSE "SerpAPIException"
NoExplicitCredential ==
  /\ inst.config_key = None
  /\ inst.fn = "SerpAPI" => inst.api_key = None

C11_CredentialAtConstruction ==
  inst.fn \in {"SerperAPI", "SerpAPI"} =>
     LET fromEnv == getenv(inst.env, EnvVar(inst.fn)) IN
     /\ (NoExplicitCredential /\ Truthy(fromEnv)
           /\ (inst.fn = "SerpAPI" => inst.installed)) =>
          /\ ~inst.out.raised
          /\ inst.out.val.config.api_key = fromEnv
     /\ (NoExplicitCredential /\ ~Truthy(fromEnv)) =>
          /\ inst.out.raised
          /\ inst.out.cls = ProviderException(inst.fn)
          /\ netCalls = 0
     /\ ~inst.out.raised => inst.out.val.config.api_key # None

(***************************************************************************)
(* NumSpec: the result count each adapter sends, as a function of the      *)
(* num_results argument                                                    *)
(***************************************************************************)
Max(a, b) == IF a > b THEN a ELSE b

\* "num": min(max(1, num_results), 10)
Serper_num(num_results) == Min(Max(1, num_results), 10)

\* "num": num_results or self.config.num_results
SerpAPI_num(num_results, config) ==
  IF num_results # 0 THEN num_results ELSE config.num_results

\* the result counts a SerpAPIConfig is built with
ConfiguredNumResults == {SerpAPIDefaultNumResults, 5}

NumInit ==
  /\ pc = "idle"
  /\ adapter = "none"
  /\ query = <<>>
  /\ response = NoResponse
  /\ ret = Pending
  /\ netCalls = 0
  /\ projCalls = 0
  /\ proj = NoProj
  /\ inst = NoCall
  /\ \E n \in (0 - MaxNum)..MaxNum, d \in ConfiguredNumResults :
       sent = [fn |-> "none", num_results |-> n,
               config |-> SerpAPIConfig(Str("k1"), d)]

\* SerperAPI.get_sources builds its JSON body
SendSerper ==
  /\ sent.fn = "none"
  /\ sent' = [sent EXCEPT !.fn = "SerperAPI"] @@
               [num |-> Serper_num(sent.num_results)]
  /\ UNCHANGED <<pc, adapter, query, response, ret, netCalls, projCalls, proj, inst>>

\* SerpAPI.get_sources builds the GoogleSearch parameters
SendSerpAPI ==
  /\ sent.fn = "none"
  /\ sent' = [sent EXCEPT !.fn = "SerpAPI"] @@
               [num |-> SerpAPI_num(sent.num_results, sent.config)]
  /\ UNCHANGED <<pc, adapter, query, response, ret, netCalls, projCalls, proj, inst>>

NumNext == SendSerper \/ SendSerpAPI

NumSpec == NumInit /\ [][NumNext]_vars

\* C12: the count sent is num_results when it is positive and the
\* adapter's configured default otherwise; SerperAPI clamps what it sends
\* into 1..10, SerpAPI does not; the count sent is always positive.
\* (SerperConfig holds no result count, so for SerperAPI the formula states
\* the positive case and the range only.)
C12_ResultCount ==
  sent.fn \in {"SerperAPI", "SerpAPI"} =>
     /\ sent.fn = "SerpAPI" =>
          sent.num = (IF sent.num_results > 0 THEN sent.num_results
                      ELSE sent.config.num_results)
     /\ sent.fn = "SerperAPI" =>
          /\ sent.num \in 1..10
          /\ sent.num_results > 0 =>
               sent.num = (IF sent.num_results > 10 THEN 10 ELSE sent.num_results)
     /\ sent.num > 0

====
